---- MODULE Spec2Model ----
(***************************************************************************)
(* A model of the chart-specification lifecycle of the task-graph          *)
(* visualization agent: the schema catalog (registry/schema_catalog.py),   *)
(* the normalizer and validator (validator/chart_validator.py), the        *)
(* auto-fix merger and the tool functions (agent/tools.py) and the agent   *)
(* workflow that sequences them (agent/agents.py, agent/orchestrator.py).  *)
(*                                                                         *)
(* Text whose characters the code inspects (column names, axis titles,     *)
(* units, the data file's answer) is a sequence of one-character strings.  *)
(* Text the code only compares with literals or uses as a key (table       *)
(* names, dtypes, encoding types, chart types, issue codes) is a string.   *)
(* A Python dict is a function whose DOMAIN is the set of keys present.    *)
(***************************************************************************)
EXTENDS Integers, Sequences, FiniteSets, TLC

VARIABLES
    mode,        \* "fn", "fix", "load": the functions are exercised; "run": one workflow run; "pair": two
    catalog,     \* the loaded SchemaCatalog: tables in load order
    data_json,   \* the loaded data JSON (its "answer" text), shared by the tools
    \* ---- pure-function harness
    pc,          \* the caller's position: "input", then the name of the last call made
    arg0,        \* the spec as the caller built it, before any call
    arg,         \* the caller's spec object, as the calls have left it
    prev,        \* what the previous call returned
    ret,         \* what the last call returned
    the_fixes,   \* the fixes mapping the caller passes to apply_auto_fixes
    \* ---- one run of the agent workflow
    agent,       \* the agent holding control, or "done"
    state,       \* the workflow state of the run
    hist         \* counters and flags recording what the run did

vars == <<mode, catalog, data_json, pc, arg0, arg, prev, ret, the_fixes, agent, state, hist>>

----------------------------------------------------------------------------
(* Text *)

Lowers == <<"a", "b", "c", "d", "e", "f", "g", "h", "i", "j", "k", "l", "m", "n", "o", "p", "q", "r", "s", "t", "u", "v", "w", "x", "y", "z">>
Uppers == <<"A", "B", "C", "D", "E", "F", "G", "H", "I", "J", "K", "L", "M", "N", "O", "P", "Q", "R", "S", "T", "U", "V", "W", "X", "Y", "Z">>
T_month == <<"m", "o", "n", "t", "h">>
T_revenue == <<"r", "e", "v", "e", "n", "u", "e">>
T_region == <<"r", "e", "g", "i", "o", "n">>
T_net_sales == <<"n", "e", "t", "_", "s", "a", "l", "e", "s">>
T_qty == <<"q", "t", "y">>
T_zz == <<"z", "z">>
T_USD == <<"U", "S", "D">>
T_EUR == <<"E", "U", "R">>
T_GBP == <<"G", "B", "P">>
T_JPY == <<"J", "P", "Y">>
T_DOLLAR == <<"D", "O", "L", "L", "A", "R">>
T_EURO == <<"E", "U", "R", "O">>
T_POUND == <<"P", "O", "U", "N", "D">>
T_YEN == <<"Y", "E", "N">>
T_sales == <<"s", "a", "l", "e", "s">>
T_price == <<"p", "r", "i", "c", "e">>
T_cost == <<"c", "o", "s", "t">>
T_amount == <<"a", "m", "o", "u", "n", "t">>
T_value == <<"v", "a", "l", "u", "e">>
T_count == <<"c", "o", "u", "n", "t">>
T_Total == <<"T", "o", "t", "a", "l">>
T_RevUSD == <<"R", "e", "v", " ", "(", "U", "S", "D", ")">>
T_Revenue_USD == <<"R", "e", "v", "e", "n", "u", "e", " ", "(", "U", "S", "D", ")">>
T_ans_dollar == <<"$", "9", "k">>
T_ans_eur == <<"9", " ", "e", "u", "r">>
T_ans_plain == <<"u", "p">>

\* Python's None where text is expected, and where a string is expected.
NoneT == <<>>
NoneS == ""

IndexOf(c, seq) ==
    IF \E i \in 1..Len(seq) : seq[i] = c
    THEN CHOOSE i \in 1..Len(seq) : seq[i] = c /\ \A j \in 1..(i - 1) : seq[j] # c
    ELSE 0

IsAlpha(c) == IndexOf(c, Lowers) > 0 \/ IndexOf(c, Uppers) > 0
UpperChar(c) == IF IndexOf(c, Lowers) > 0 THEN Uppers[IndexOf(c, Lowers)] ELSE c
LowerChar(c) == IF IndexOf(c, Uppers) > 0 THEN Lowers[IndexOf(c, Uppers)] ELSE c

\* str.upper(), str.lower()
StrUpper(s) == [i \in 1..Len(s) |-> UpperChar(s[i])]
StrLower(s) == [i \in 1..Len(s) |-> LowerChar(s[i])]

\* str.replace("_", " ")
ReplaceUnderscore(s) == [i \in 1..Len(s) |-> IF s[i] = "_" THEN " " ELSE s[i]]

\* str.title(): a letter that follows a non-letter is upper-cased, any other
\* letter is lower-cased.
StrTitle(s) ==
    [i \in 1..Len(s) |->
        IF i = 1 \/ ~IsAlpha(s[i - 1]) THEN UpperChar(s[i]) ELSE LowerChar(s[i])]

\* sub in s
Contains(sub, s) ==
    \E i \in 0..(Len(s) - Len(sub)) : SubSeq(s, i + 1, i + Len(sub)) = sub

\* f"({u})" and f"{t} ({u})"
Parenthesized(u) == <<"(">> \o u \o <<")">>
WithUnit(t, u) == t \o <<" ">> \o Parenthesized(u)

----------------------------------------------------------------------------
(* Dicts *)

EmptyDict == [k \in {} |-> NoneS]
Put(d, k, v) == [kk \in DOMAIN d \cup {k} |-> IF kk = k THEN v ELSE d[kk]]
Get(d, k, dflt) == IF k \in DOMAIN d THEN d[k] ELSE dflt

----------------------------------------------------------------------------
(* registry/schema_catalog.py *)

NUMERIC_UNIT_DTYPES == {"float64", "int64", "float32", "int32"}
MoneyTerms == {T_sales, T_revenue, T_price, T_cost, T_amount, T_value}

\* SchemaCatalog._infer_unit; NoneT is None
InferUnit(field_name, dtype) ==
    IF dtype \notin NUMERIC_UNIT_DTYPES THEN NoneT
    ELSE IF \E term \in MoneyTerms : Contains(term, StrLower(field_name)) THEN T_USD
    ELSE IF Contains(T_count, StrLower(field_name)) THEN NoneT
    ELSE NoneT

\* One column of SchemaCatalog.from_dict: a raw column whose unit is missing or
\* falsy (NoneT) gets the inferred unit, if there is one.
LoadColumn(c) ==
    IF c.unit = NoneT /\ InferUnit(c.name, c.dtype) # NoneT
    THEN [c EXCEPT !.unit = InferUnit(c.name, c.dtype)]
    ELSE c

\* SchemaCatalog.from_dict: the tables in the order of the raw mapping.
FromDict(raw) ==
    [t \in 1..Len(raw) |->
        [table_name |-> raw[t].table_name,
         columns |-> [i \in 1..Len(raw[t].columns) |-> LoadColumn(raw[t].columns[i])]]]

\* TableSchema.has_columns
HasColumns(table, required) ==
    \A col \in required : \E i \in 1..Len(table.columns) : table.columns[i].name = col

\* TableSchema.get_column: the index of the first column of that name, 0 for None
GetColumn(table, name) ==
    IF \E i \in 1..Len(table.columns) : table.columns[i].name = name
    THEN CHOOSE i \in 1..Len(table.columns) :
            /\ table.columns[i].name = name
            /\ \A j \in 1..(i - 1) : table.columns[j].name # name
    ELSE 0

\* SchemaCatalog.get: the index of the table of that name, 0 for None
CatalogGet(cat, table_name) ==
    IF \E t \in 1..Len(cat) : cat[t].table_name = table_name
    THEN CHOOSE t \in 1..Len(cat) : cat[t].table_name = table_name
    ELSE 0

\* FindTableCovering as it would be if it returned the last covering table.
FindTableCoveringLast(cat, columns) ==
    IF \E t \in 1..Len(cat) : HasColumns(cat[t], columns)
    THEN CHOOSE t \in 1..Len(cat) :
            /\ HasColumns(cat[t], columns)
            /\ \A u \in (t + 1)..Len(cat) : ~HasColumns(cat[u], columns)
    ELSE 0

\* SchemaCatalog.find_table_covering: the first table, in load order, that
\* has all the columns; 0 for None
FindTableCovering(cat, columns) ==
    IF \E t \in 1..Len(cat) : HasColumns(cat[t], columns)
    THEN CHOOSE t \in 1..Len(cat) :
            /\ HasColumns(cat[t], columns)
            /\ \A u \in 1..(t - 1) : ~HasColumns(cat[u], columns)
    ELSE 0

----------------------------------------------------------------------------
(* renderer/data_loader.py *)

\* extract_currency_from_answer, on ASCII answers; NoneT is None
ExtractCurrencyFromAnswer(data) ==
    LET answer_str == StrUpper(data.answer) IN
    IF data.answer = NoneT THEN NoneT
    ELSE IF Contains(<<"$">>, answer_str) \/ Contains(T_USD, answer_str)
            \/ Contains(T_DOLLAR, answer_str) THEN T_USD
    ELSE IF Contains(T_EUR, answer_str) \/ Contains(T_EURO, answer_str) THEN T_EUR
    ELSE IF Contains(T_GBP, answer_str) \/ Contains(T_POUND, answer_str) THEN T_GBP
    ELSE IF Contains(T_JPY, answer_str) \/ Contains(T_YEN, answer_str) THEN T_JPY
    ELSE NoneT

----------------------------------------------------------------------------
(* validator/chart_validator.py *)

TEMPORAL_DTYPES == {"datetime64[ns]"}
NUMERIC_DTYPES == {"float64", "int64", "int32", "float32"}
CATEGORICAL_DTYPES == {"object", "string"}

\* The value of encoding.x / encoding.y: a string, a dict, or another shape
\* (null, a number, a list).
StrAxis(s) == [kind |-> "str", s |-> s, d |-> EmptyDict]
DictAxis(d) == [kind |-> "dict", s |-> NoneT, d |-> d]
OtherAxis == [kind |-> "other", s |-> NoneT, d |-> EmptyDict]

\* The value of the spec's "encoding" key: a dict of axes, null, or a
\* non-empty string.
DictEnc(d) == [kind |-> "dict", d |-> d]
NoneEnc == [kind |-> "none", d |-> EmptyDict]
StrEnc == [kind |-> "str", d |-> EmptyDict]

\* The value of an axis "title": text, or a non-zero number.
StrTitleValue(s) == [kind |-> "str", s |-> s]
NumTitleValue == [kind |-> "num", s |-> NoneT]

\* _infer_type_from_dtype; NoneS is None
InferTypeFromDtype(dtype) ==
    IF dtype = NoneS THEN NoneS
    ELSE IF dtype \in TEMPORAL_DTYPES THEN "temporal"
    ELSE IF dtype \in NUMERIC_DTYPES THEN "quantitative"
    ELSE IF dtype \in CATEGORICAL_DTYPES THEN "nominal"
    ELSE NoneS

\* NormalizeAxis as it would be without the isinstance(x, dict) branch of
\* lines 152-153 and 161-162: an axis that is already a dict is emptied.
NormalizeAxisDropsDict(encoding, k) ==
    IF Get(encoding, k, OtherAxis).kind = "str"
    THEN DictAxis([field |-> Get(encoding, k, OtherAxis).s])
    ELSE DictAxis(EmptyDict)

\* _normalize_spec, lines 149-155 and 158-164: the axis as a dict
NormalizeAxis(encoding, k) ==
    IF Get(encoding, k, OtherAxis).kind = "str"
    THEN DictAxis([field |-> Get(encoding, k, OtherAxis).s])
    ELSE IF Get(encoding, k, OtherAxis).kind = "dict" THEN Get(encoding, k, OtherAxis)
    ELSE DictAxis(EmptyDict)

\* _normalize_spec, lines 148-164: encoding with x and y made dicts
NormalizeAxes(encoding) ==
    [k \in DOMAIN encoding \cup {"x", "y"} |->
        IF k \in {"x", "y"} THEN NormalizeAxis(encoding, k) ELSE encoding[k]]

\* encoding.get("x", {}).get("field"); NoneT is None
AxisField(encoding, k) == Get(encoding[k].d, "field", NoneT)

\* table.get_column(f).dtype if table.get_column(f) else None; NoneS is None
ColumnDtype(table, name) ==
    IF GetColumn(table, name) # 0 THEN table.columns[GetColumn(table, name)].dtype ELSE NoneS

\* _normalize_spec, lines 181-182 and 186-187
WithInferredType(axis, inferred) ==
    IF inferred # NoneS THEN Put(axis, "type", inferred) ELSE axis

\* InferAxisType as it would be without the `"type" not in` test of lines 178
\* and 183: a given type is replaced by the inferred one.
InferAxisTypeOverwrites(cat, t, axis) ==
    IF t # 0 /\ Get(axis, "field", NoneT) # NoneT
    THEN WithInferredType(axis, InferTypeFromDtype(ColumnDtype(cat[t], axis["field"])))
    ELSE axis

\* _normalize_spec, lines 178-182 and 183-187: the axis dict with its type
\* inferred from the column's dtype; t is the resolved table (0: none)
InferAxisType(cat, t, axis) ==
    IF t # 0 /\ Get(axis, "field", NoneT) # NoneT /\ "type" \notin DOMAIN axis
    THEN WithInferredType(axis, InferTypeFromDtype(ColumnDtype(cat[t], axis["field"])))
    ELSE axis

\* _normalize_spec, lines 178-187, on both axes
InferAxisTypes(cat, t, encoding) ==
    [k \in DOMAIN encoding |->
        IF k \in {"x", "y"} THEN DictAxis(InferAxisType(cat, t, encoding[k].d)) ELSE encoding[k]]

\* _normalize_spec, lines 171-173: the covering table's name, if there is one
CoveringName(cat, given, t) == IF t # 0 THEN cat[t].table_name ELSE given

\* _normalize_spec, lines 167-174: the data source, inferred when missing
InferDataSource(cat, given, x_field, y_field) ==
    IF given = NoneS /\ x_field # NoneT /\ y_field # NoneT
    THEN CoveringName(cat, given, FindTableCovering(cat, {x_field, y_field}))
    ELSE given

\* TypeTable as it would be if line 177 read the data source the spec came
\* with instead of the one line 173 inferred.
TypeTableStale(cat, given, data_source) ==
    IF given # NoneS THEN CatalogGet(cat, given) ELSE 0

\* _normalize_spec, line 177: the table the axis types are inferred from;
\* data_source is the given or inferred one
TypeTable(cat, given, data_source) ==
    IF data_source # NoneS THEN CatalogGet(cat, data_source) ELSE 0

\* InferChartType as it would be if line 194 read `x_t != "nominal"`: an x
\* without a type gets a line chart.
InferChartTypeLineByDefault(given, x_t) ==
    IF given = NoneS THEN (IF x_t \in {"temporal", NoneS} THEN "line" ELSE "bar") ELSE given

\* _normalize_spec, lines 192-197: the chart type, inferred when missing
InferChartType(given, x_t) ==
    IF given = NoneS THEN (IF x_t = "temporal" THEN "line" ELSE "bar") ELSE given

\* _normalize_spec, line 174: out["data_source"] written when it was inferred
WithDataSource(out, given, data_source) ==
    IF data_source # given THEN Put(out, "data_source", data_source) ELSE out

\* _normalize_spec, lines 192-197: out["chart_type"] written when it was missing
WithChartType(out, x_t) ==
    IF Get(out, "chart_type", NoneS) = NoneS
    THEN Put(out, "chart_type", InferChartType(Get(out, "chart_type", NoneS), x_t))
    ELSE out

\* _normalize_spec, lines 189-199: encoding is the dict lines 148-187 built.
\* aliased: that dict is the caller's own encoding dict.
NormalizeFinish(spec, aliased, given, data_source, encoding) ==
    [raised |-> FALSE,
     out |-> WithChartType(Put(WithDataSource(spec, given, data_source),
                               "encoding", DictEnc(encoding)),
                           Get(encoding["x"].d, "type", NoneS)),
     input |-> IF aliased THEN Put(spec, "encoding", DictEnc(encoding)) ELSE spec]

\* _normalize_spec, lines 176-187
NormalizeTypes(cat, spec, aliased, given, data_source, encoding) ==
    NormalizeFinish(spec, aliased, given, data_source,
                    InferAxisTypes(cat, TypeTable(cat, given, data_source), encoding))

\* _normalize_spec, lines 166-174
NormalizeSource(cat, spec, aliased, given, encoding) ==
    NormalizeTypes(cat, spec, aliased, given,
                   InferDataSource(cat, given, AxisField(encoding, "x"), AxisField(encoding, "y")),
                   encoding)

\* _normalize_spec, line 146: `out.get("encoding", {}) or {}` is the caller's
\* own encoding dict whenever that dict is non-empty
Aliased(enc0) == enc0.kind = "dict" /\ DOMAIN enc0.d # {}

\* _normalize_spec, lines 146-164
NormalizeEncoding(cat, spec, enc0) ==
    NormalizeSource(cat, spec, Aliased(enc0), Get(spec, "data_source", NoneS),
                    NormalizeAxes(IF Aliased(enc0) THEN enc0.d ELSE EmptyDict))

\* _normalize_spec. out is the returned dict; input is the caller's dict after
\* the call; raised tells that an exception left the function.
\* `out = {**spec}` copies the top level only, so what lines 151-187 write into
\* a non-empty encoding dict (and into its x and y dicts) is written into the
\* caller's spec too. A non-empty string has no .get: line 149 raises.
Normalize(cat, spec) ==
    IF Get(spec, "encoding", DictEnc(EmptyDict)).kind = "str"
    THEN [raised |-> TRUE, out |-> spec, input |-> spec]
    ELSE NormalizeEncoding(cat, spec, Get(spec, "encoding", DictEnc(EmptyDict)))

Issue(code, message, details) == [code |-> code, message |-> message, details |-> details]

\* validate_spec, lines 57-65: the FIELD_NOT_FOUND issues of one axis
FieldIssues(table, field, missing, notFound) ==
    IF field = NoneT
    THEN <<Issue("FIELD_NOT_FOUND", missing, EmptyDict)>>
    ELSE IF GetColumn(table, field) = 0
    THEN <<Issue("FIELD_NOT_FOUND", notFound, [field |-> field])>>
    ELSE <<>>

\* DtypeIssues as it would be with lines 79 and 81 written as elif: an x
\* mismatch hides the y mismatches.
DtypeIssuesElif(x_field, x_type, x_dtype, y_field, y_type, y_dtype) ==
    IF x_type = "temporal" /\ x_dtype \notin TEMPORAL_DTYPES
    THEN <<Issue("DTYPE_MISMATCH", "X expects temporal", [field |-> x_field, dtype |-> x_dtype])>>
    ELSE IF y_type = "quantitative" /\ y_dtype \notin NUMERIC_DTYPES
    THEN <<Issue("DTYPE_MISMATCH", "Y expects numeric", [field |-> y_field, dtype |-> y_dtype])>>
    ELSE IF y_type = "nominal" /\ y_dtype \notin CATEGORICAL_DTYPES
    THEN <<Issue("DTYPE_MISMATCH", "Y expects nominal", [field |-> y_field, dtype |-> y_dtype])>>
    ELSE <<>>

\* validate_spec, lines 77-82: dtype compatibility
DtypeIssues(x_field, x_type, x_dtype, y_field, y_type, y_dtype) ==
    (IF x_type = "temporal" /\ x_dtype \notin TEMPORAL_DTYPES
     THEN <<Issue("DTYPE_MISMATCH", "X expects temporal", [field |-> x_field, dtype |-> x_dtype])>>
     ELSE <<>>)
    \o (IF y_type = "quantitative" /\ y_dtype \notin NUMERIC_DTYPES
        THEN <<Issue("DTYPE_MISMATCH", "Y expects numeric", [field |-> y_field, dtype |-> y_dtype])>>
        ELSE <<>>)
    \o (IF y_type = "nominal" /\ y_dtype \notin CATEGORICAL_DTYPES
        THEN <<Issue("DTYPE_MISMATCH", "Y expects nominal", [field |-> y_field, dtype |-> y_dtype])>>
        ELSE <<>>)

\* IntentIssues as it would be with the bar rule of line 88 testing for a
\* non-temporal x.
IntentIssuesBarInverted(chart_type, x_type, y_type) ==
    (IF chart_type \in {"line", "area"} /\ x_type # "temporal"
     THEN <<Issue("INTENT_RULE", "Line/area must have temporal x", [chart_type |-> chart_type])>>
     ELSE <<>>)
    \o (IF chart_type = "bar" /\ x_type # "temporal"
        THEN <<Issue("INTENT_RULE", "Bar x should be categorical", EmptyDict)>>
        ELSE <<>>)
    \o (IF chart_type = "pie" /\ x_type # NoneS /\ x_type # "nominal"
        THEN <<Issue("INTENT_RULE", "Pie chart x (labels) must be nominal/categorical",
                     [chart_type |-> chart_type, x_type |-> x_type])>>
        ELSE <<>>)
    \o (IF chart_type = "pie" /\ y_type # NoneS /\ y_type # "quantitative"
        THEN <<Issue("INTENT_RULE", "Pie chart y (values) must be quantitative",
                     [chart_type |-> chart_type, y_type |-> y_type])>>
        ELSE <<>>)

\* validate_spec, lines 85-95: chart-type intent rules
IntentIssues(chart_type, x_type, y_type) ==
    (IF chart_type \in {"line", "area"} /\ x_type # "temporal"
     THEN <<Issue("INTENT_RULE", "Line/area must have temporal x", [chart_type |-> chart_type])>>
     ELSE <<>>)
    \o (IF chart_type = "bar" /\ x_type = "temporal"
        THEN <<Issue("INTENT_RULE", "Bar x should be categorical", EmptyDict)>>
        ELSE <<>>)
    \o (IF chart_type = "pie" /\ x_type # NoneS /\ x_type # "nominal"
        THEN <<Issue("INTENT_RULE", "Pie chart x (labels) must be nominal/categorical",
                     [chart_type |-> chart_type, x_type |-> x_type])>>
        ELSE <<>>)
    \o (IF chart_type = "pie" /\ y_type # NoneS /\ y_type # "quantitative"
        THEN <<Issue("INTENT_RULE", "Pie chart y (values) must be quantitative",
                     [chart_type |-> chart_type, y_type |-> y_type])>>
        ELSE <<>>)

\* ResolveYUnit as it would be with the two priorities of lines 102-107 swapped.
ResolveYUnitHintFirst(y_col, data) ==
    IF data.present /\ ExtractCurrencyFromAnswer(data) # NoneT THEN ExtractCurrencyFromAnswer(data)
    ELSE y_col.unit

\* validate_spec, lines 98-107: the y unit; NoneT is None
ResolveYUnit(y_col, data) ==
    IF y_col.unit # NoneT THEN y_col.unit
    ELSE IF data.present THEN ExtractCurrencyFromAnswer(data)
    ELSE NoneT

\* validate_spec, line 111: y_encoding.get("title") or y_field.replace("_", " ").title()
AxisTitle(y_encoding, y_field) ==
    IF Get(y_encoding, "title", StrTitleValue(NoneT)).kind = "num"
       \/ Get(y_encoding, "title", StrTitleValue(NoneT)).s # NoneT
    THEN y_encoding["title"]
    ELSE StrTitleValue(StrTitle(ReplaceUnderscore(y_field)))

\* validate_spec, lines 109-117: the staged meta fixes (axis_title is text)
MetaFixes(axis_title, y_unit) ==
    [y_title |-> IF ~Contains(Parenthesized(y_unit), axis_title)
                 THEN WithUnit(axis_title, y_unit) ELSE axis_title,
     y_units |-> y_unit]

\* validate_spec, lines 109-110: auto_fixes after the unit step
UnitFixes(axis_title, y_unit) ==
    IF y_unit # NoneT THEN [meta |-> MetaFixes(axis_title.s, y_unit)] ELSE EmptyDict

\* TimeUnitFixes as it would be if line 120 did not look at the chart type.
TimeUnitFixesAnyChart(chart_type, x_encoding, fixes) ==
    IF Get(x_encoding, "time_unit", NoneS) = NoneS
    THEN Put(fixes, "encoding", [x |-> [time_unit |-> "yearmonth"]])
    ELSE fixes

\* validate_spec, lines 120-123: the staged encoding fixes
TimeUnitFixes(chart_type, x_encoding, fixes) ==
    IF chart_type \in {"line", "area"} /\ Get(x_encoding, "time_unit", NoneS) = NoneS
    THEN Put(fixes, "encoding", [x |-> [time_unit |-> "yearmonth"]])
    ELSE fixes

\* Verdict as it would be with an off-by-one in line 125.
VerdictLenient(issues) == Len(issues) <= 1

\* validate_spec, line 125
Verdict(issues) == Len(issues) = 0

Result(ok, issues, auto_fixes, input) ==
    [raised |-> FALSE, ok |-> ok, issues |-> issues, auto_fixes |-> auto_fixes, input |-> input]
Raised(input) ==
    [raised |-> TRUE, ok |-> FALSE, issues |-> <<>>, auto_fixes |-> EmptyDict, input |-> input]

\* validate_spec, lines 76-95: the dtype and intent issues
SemanticIssues(table, x_encoding, y_encoding, chart_type) ==
    DtypeIssues(x_encoding["field"], Get(x_encoding, "type", NoneS),
                ColumnDtype(table, x_encoding["field"]),
                y_encoding["field"], Get(y_encoding, "type", NoneS),
                ColumnDtype(table, y_encoding["field"]))
    \o IntentIssues(chart_type, Get(x_encoding, "type", NoneS), Get(y_encoding, "type", NoneS))

\* validate_spec, lines 109-126; line 113 raises TypeError when the title is
\* a number (`in` needs text)
ValidateFinish(issues, chart_type, x_encoding, axis_title, y_unit, input) ==
    IF y_unit # NoneT /\ axis_title.kind = "num"
    THEN Raised(input)
    ELSE Result(Verdict(issues), issues,
                TimeUnitFixes(chart_type, x_encoding, UnitFixes(axis_title, y_unit)), input)

\* validate_spec, lines 70-126, on the axis dicts
ValidateAxes(table, x_encoding, y_encoding, chart_type, data, input) ==
    ValidateFinish(SemanticIssues(table, x_encoding, y_encoding, chart_type),
                   chart_type, x_encoding,
                   AxisTitle(y_encoding, y_encoding["field"]),
                   ResolveYUnit(table.columns[GetColumn(table, y_encoding["field"])], data),
                   input)

\* validate_spec, lines 70-126: the rules once the table and both fields resolved
ValidateResolved(table, spec, data, input) ==
    ValidateAxes(table, spec["encoding"].d["x"].d, spec["encoding"].d["y"].d,
                 Get(spec, "chart_type", NoneS), data, input)

\* AllFieldIssues as it would be with the y check written before the x check.
AllFieldIssuesYFirst(table, encoding) ==
    FieldIssues(table, AxisField(encoding, "y"), "Y field missing", "Y field not found in table")
    \o FieldIssues(table, AxisField(encoding, "x"), "X field missing", "X field not found in table")

\* validate_spec, lines 57-65: the FIELD_NOT_FOUND issues, x before y
AllFieldIssues(table, encoding) ==
    FieldIssues(table, AxisField(encoding, "x"), "X field missing", "X field not found in table")
    \o FieldIssues(table, AxisField(encoding, "y"), "Y field missing", "Y field not found in table")

\* validate_spec, lines 67-68
ValidateFields(table, spec, data, input, issues) ==
    IF issues # <<>> THEN Result(FALSE, issues, EmptyDict, input)
    ELSE ValidateResolved(table, spec, data, input)

\* validate_spec, lines 44-68; t is the table of that name (0: none)
ValidateTable(cat, t, spec, data_source, data, input) ==
    IF t = 0
    THEN Result(FALSE, <<Issue("TABLE_NOT_FOUND", "Data source not found",
                               [data_source |-> data_source])>>, EmptyDict, input)
    ELSE ValidateFields(cat[t], spec, data, input, AllFieldIssues(cat[t], spec["encoding"].d))

\* validate_spec, lines 39-47
ValidateSource(cat, spec, data_source, data, input) ==
    IF data_source = NoneS
    THEN Result(FALSE, <<Issue("MISSING_FIELD", "Data source is required", EmptyDict)>>,
                EmptyDict, input)
    ELSE ValidateTable(cat, CatalogGet(cat, data_source), spec, data_source, data, input)

\* validate_spec, lines 37-126; n is what _normalize_spec returned
ValidateNormalized(cat, n, data) ==
    IF n.raised THEN Raised(n.input)
    ELSE ValidateSource(cat, n.out, Get(n.out, "data_source", NoneS), data, n.input)

\* validate_spec(catalog, spec_dict, data_json)
Validate(cat, spec_dict, data) == ValidateNormalized(cat, Normalize(cat, spec_dict), data)

----------------------------------------------------------------------------
(* agent/tools.py: apply_auto_fixes *)

\* dict.update
Update(d, u) == [k \in DOMAIN d \cup DOMAIN u |-> IF k \in DOMAIN u THEN u[k] ELSE d[k]]

\* XAsDict as it would be if line 155 tested isinstance(x_encoding, dict): an x
\* that is already a dict is emptied.
XAsDictResetsDict(a) ==
    IF a.kind = "str" THEN [field |-> a.s]
    ELSE EmptyDict

\* apply_auto_fixes, lines 149-156: encoding.x as a dict
XAsDict(a) ==
    IF a.kind = "str" THEN [field |-> a.s]
    ELSE IF a.kind = "dict" THEN a.d
    ELSE EmptyDict

\* FixedEncoding as it would be if line 158 assigned the fixes instead of
\* updating x with them: the keys x had are lost.
FixedEncodingReplacesX(encoding, xfixes) ==
    Put(encoding, "x", DictAxis(xfixes))

\* apply_auto_fixes, lines 149-158: the encoding dict with x updated
FixedEncoding(encoding, xfixes) ==
    Put(encoding, "x", DictAxis(Update(XAsDict(Get(encoding, "x", OtherAxis)), xfixes)))

\* apply_auto_fixes, lines 146-158
EncodingFixed(spec, fixes) ==
    IF "encoding" \in DOMAIN fixes
    THEN Put(spec, "encoding",
             DictEnc(FixedEncoding(Get(spec, "encoding", NoneEnc).d,
                                   Get(fixes["encoding"], "x", EmptyDict))))
    ELSE spec

\* apply_auto_fixes, lines 159-162
MetaFixed(spec, fixes) ==
    IF "meta" \in DOMAIN fixes
    THEN Put(spec, "meta", Update(Get(spec, "meta", EmptyDict), fixes["meta"]))
    ELSE spec

\* apply_auto_fixes, lines 163-165
OtherFixed(spec, fixes) ==
    [k \in DOMAIN spec \cup (DOMAIN fixes \ {"encoding", "meta"}) |->
        IF k \in DOMAIN fixes \ {"encoding", "meta"} THEN fixes[k] ELSE spec[k]]

\* The caller's spec after apply_auto_fixes: `merged = {**spec}` copies the top
\* level only, so an encoding dict and a meta dict that the spec already holds
\* are the caller's own objects and are updated in place (lines 152-158, 162).
CallerAfterFixes(spec, fixes, merged) ==
    [k \in DOMAIN spec |->
        IF k = "encoding" /\ "encoding" \in DOMAIN fixes /\ spec[k].kind = "dict" THEN merged[k]
        ELSE IF k = "meta" /\ "meta" \in DOMAIN fixes THEN merged[k]
        ELSE spec[k]]

\* apply_auto_fixes. out is the returned dict; input is the caller's spec after
\* the call; raised tells that an exception left the function (line 149: a
\* string encoding has no .get).
ApplyAutoFixes(spec, fixes) ==
    IF DOMAIN fixes = {} THEN [raised |-> FALSE, out |-> spec, input |-> spec]
    ELSE IF "encoding" \in DOMAIN fixes /\ Get(spec, "encoding", NoneEnc).kind = "str"
    THEN [raised |-> TRUE, out |-> spec, input |-> spec]
    ELSE [raised |-> FALSE,
          out |-> OtherFixed(MetaFixed(EncodingFixed(spec, fixes), fixes), fixes),
          input |-> CallerAfterFixes(spec, fixes, MetaFixed(EncodingFixed(spec, fixes), fixes))]

----------------------------------------------------------------------------
(* The inputs the functions are exercised on *)

RawColumn(name, dtype, unit) == [name |-> name, dtype |-> dtype, unit |-> unit]

\* Schema definitions as read from the schema file (unit NoneT: not declared).
RawSales ==
    [table_name |-> "sales",
     columns |-> <<RawColumn(T_month, "datetime64[ns]", NoneT),
                   RawColumn(T_revenue, "float64", NoneT),
                   RawColumn(T_region, "object", NoneT),
                   RawColumn(T_qty, "int64", NoneT)>>]
RawOrders ==
    [table_name |-> "orders",
     columns |-> <<RawColumn(T_month, "datetime64[ns]", NoneT),
                   RawColumn(T_region, "string", NoneT),
                   RawColumn(T_net_sales, "float32", T_EUR)>>]

Catalogs == {FromDict(<<RawSales, RawOrders>>), FromDict(<<RawOrders, RawSales>>)}

\* The loaded data JSON: absent (None), or a dict with its "answer" text.
DataJsons ==
    {[present |-> FALSE, answer |-> NoneT],
     [present |-> TRUE, answer |-> T_ans_dollar],
     [present |-> TRUE, answer |-> T_ans_plain]}

AbsentAxis == [kind |-> "absent", s |-> NoneT, d |-> EmptyDict]
NoTitle == [kind |-> "absent", s |-> NoneT]

\* An axis dict with the keys that are given (NoneT / NoneS / NoTitle: key absent).
AxisDict(f, ty, ti, tu) ==
    [k \in (IF f # NoneT THEN {"field"} ELSE {}) \cup (IF ty # NoneS THEN {"type"} ELSE {})
           \cup (IF ti # NoTitle THEN {"title"} ELSE {})
           \cup (IF tu # NoneS THEN {"time_unit"} ELSE {}) |->
        IF k = "field" THEN f ELSE IF k = "type" THEN ty ELSE IF k = "title" THEN ti ELSE tu]

\* An encoding dict with the axes that are given.
EncDict(x, y) ==
    [k \in (IF x # AbsentAxis THEN {"x"} ELSE {}) \cup (IF y # AbsentAxis THEN {"y"} ELSE {}) |->
        IF k = "x" THEN x ELSE y]

NoEnc == [kind |-> "absent", d |-> EmptyDict]

\* A spec with the keys that are given.
SpecDict(ds, ct, enc) ==
    [k \in (IF ds # NoneS THEN {"data_source"} ELSE {}) \cup (IF ct # NoneS THEN {"chart_type"} ELSE {})
           \cup (IF enc.kind # "absent" THEN {"encoding"} ELSE {}) |->
        IF k = "data_source" THEN ds ELSE IF k = "chart_type" THEN ct ELSE enc]

TypeInputs == {NoneS, "temporal", "quantitative", "nominal"}

XInputs ==
    {AbsentAxis, OtherAxis, StrAxis(T_month), StrAxis(T_zz)}
    \cup {DictAxis(AxisDict(f, ty, NoTitle, tu)) :
            f \in {NoneT, T_month, T_region, T_zz}, ty \in TypeInputs, tu \in {NoneS, "month"}}

YInputs ==
    {AbsentAxis, OtherAxis, StrAxis(T_revenue), StrAxis(T_net_sales)}
    \cup {DictAxis(AxisDict(f, ty, ti, NoneS)) :
            f \in {NoneT, T_revenue, T_region, T_zz}, ty \in TypeInputs,
            ti \in {NoTitle, StrTitleValue(T_RevUSD), StrTitleValue(T_Total), NumTitleValue}}

DataSourceInputs == {NoneS, "sales", "nosuch"}
ChartTypeInputs == {NoneS, "line", "bar", "area", "pie"}

----------------------------------------------------------------------------
(* The functions, called by a caller that keeps its spec object *)

NoCall == [raised |-> FALSE]

InitFn ==
    /\ mode = "fn"
    /\ catalog \in Catalogs
    /\ data_json \in DataJsons
    /\ pc = "input"
    /\ \E ds \in DataSourceInputs, ct \in ChartTypeInputs, x \in XInputs, y \in YInputs,
          shape \in {"dict", "absent", "none", "str"} :
            /\ shape = "dict" => arg0 = SpecDict(ds, ct, DictEnc(EncDict(x, y)))
            /\ shape # "dict" => /\ x = AbsentAxis /\ y = AbsentAxis
                                  /\ arg0 = SpecDict(ds, ct, [kind |-> shape, d |-> EmptyDict])
    /\ arg = arg0
    /\ prev = NoCall
    /\ ret = NoCall
    /\ the_fixes = EmptyDict
    /\ agent = "none"
    /\ state = EmptyDict
    /\ hist = EmptyDict

\* r = _normalize_spec(catalog, arg)
CallNormalize ==
    /\ mode = "fn" /\ pc = "input"
    /\ ret' = Normalize(catalog, arg)
    /\ arg' = ret'.input
    /\ prev' = ret
    /\ pc' = "normalized"
    /\ UNCHANGED <<mode, catalog, data_json, arg0, agent, state, hist, the_fixes>>

\* r2 = _normalize_spec(catalog, r)
CallNormalizeAgain ==
    /\ mode = "fn" /\ pc = "normalized" /\ ~ret.raised
    /\ ret' = Normalize(catalog, ret.out)
    /\ prev' = ret
    /\ pc' = "renormalized"
    /\ UNCHANGED <<mode, catalog, data_json, arg0, arg, agent, state, hist, the_fixes>>

\* v = validate_spec(catalog, arg, data_json)
CallValidate ==
    /\ mode = "fn" /\ pc = "input"
    /\ ret' = Validate(catalog, arg, data_json)
    /\ arg' = ret'.input
    /\ prev' = ret
    /\ pc' = "validated"
    /\ UNCHANGED <<mode, catalog, data_json, arg0, agent, state, hist, the_fixes>>

\* v2 = validate_spec(catalog, arg, data_json), on the object the first call was given
CallValidateAgain ==
    /\ mode = "fn" /\ pc = "validated"
    /\ ret' = Validate(catalog, arg, data_json)
    /\ arg' = ret'.input
    /\ prev' = ret
    /\ pc' = "revalidated"
    /\ UNCHANGED <<mode, catalog, data_json, arg0, agent, state, hist, the_fixes>>

NextFn == CallNormalize \/ CallNormalizeAgain \/ CallValidate \/ CallValidateAgain

SpecFn == InitFn /\ [][NextFn]_vars

----------------------------------------------------------------------------
(* apply_auto_fixes, called by a caller that keeps its spec object *)

NoMeta == [kind |-> "absent", d |-> EmptyDict]
MetaDict(d) == [kind |-> "dict", d |-> d]

\* A spec that may carry a meta dict.
SpecWithMeta(spec, meta) == IF meta.kind = "absent" THEN spec ELSE Put(spec, "meta", meta.d)

MetaInputs ==
    {NoMeta, MetaDict(EmptyDict), MetaDict([title |-> T_sales, y_title |-> T_Total])}

FixXInputs ==
    {AbsentAxis, OtherAxis, StrAxis(T_month),
     DictAxis(AxisDict(T_month, NoneS, NoTitle, NoneS)),
     DictAxis(AxisDict(T_month, "temporal", NoTitle, "month"))}

FixYInputs ==
    {AbsentAxis, StrAxis(T_revenue),
     DictAxis(AxisDict(T_revenue, NoneS, StrTitleValue(T_Total), NoneS)),
     DictAxis(AxisDict(T_revenue, "nominal", NoTitle, NoneS))}

FixEncodingInputs ==
    {NoEnc, NoneEnc, StrEnc} \cup {DictEnc(EncDict(x, y)) : x \in FixXInputs, y \in FixYInputs}

FixSpecs ==
    {SpecWithMeta(SpecDict(ds, ct, enc), meta) :
        ds \in {NoneS, "sales"}, ct \in {NoneS, "line", "bar"},
        enc \in FixEncodingInputs, meta \in MetaInputs}

\* A fixes mapping with the entries that are given.
FixesDict(hasEncoding, encoding, hasMeta, meta, hasOther) ==
    [k \in (IF hasEncoding THEN {"encoding"} ELSE {}) \cup (IF hasMeta THEN {"meta"} ELSE {})
           \cup (IF hasOther THEN {"chart_type"} ELSE {}) |->
        IF k = "encoding" THEN encoding ELSE IF k = "meta" THEN meta ELSE "area"]

\* The fixes mappings a caller can pass: the validator's shapes, an x fix that
\* overrides a key, an encoding entry without x, a top-level key, none at all.
FixesInputs ==
    {FixesDict(he, e, hm, m, ho) :
        he \in BOOLEAN, hm \in BOOLEAN, ho \in BOOLEAN,
        e \in {[x |-> [time_unit |-> "yearmonth"]], [x |-> [type |-> "nominal"]], EmptyDict},
        m \in {[y_units |-> T_USD], [y_title |-> T_Revenue_USD, y_units |-> T_USD]}}

InitFix ==
    /\ mode = "fix"
    /\ catalog \in Catalogs
    /\ data_json \in DataJsons
    /\ pc = "input"
    /\ arg0 \in FixSpecs
    /\ arg = arg0
    /\ prev = NoCall
    /\ ret = NoCall
    /\ the_fixes = EmptyDict
    /\ agent = "none"
    /\ state = EmptyDict
    /\ hist = EmptyDict

\* The caller builds a fixes mapping of its own.
ChooseFixes ==
    /\ mode = "fix" /\ pc = "input"
    /\ the_fixes' \in FixesInputs
    /\ pc' = "chosen"
    /\ UNCHANGED <<mode, catalog, data_json, arg0, arg, prev, ret, agent, state, hist>>

\* fixes = validate_spec(catalog, arg, data_json).auto_fixes
CallValidateForFixes ==
    /\ mode = "fix" /\ pc = "input"
    /\ ret' = Validate(catalog, arg, data_json)
    /\ arg' = ret'.input
    /\ prev' = ret
    /\ the_fixes' = ret'.auto_fixes
    /\ pc' = "validated"
    /\ UNCHANGED <<mode, catalog, data_json, arg0, agent, state, hist>>

\* r = apply_auto_fixes(arg, fixes)
CallApplyFixes ==
    /\ mode = "fix"
    /\ \/ pc = "chosen"
       \/ pc = "validated" /\ ~ret.raised
    /\ ret' = ApplyAutoFixes(arg, the_fixes)
    /\ arg' = ret'.input
    /\ prev' = ret
    /\ pc' = IF pc = "chosen" THEN "applied" ELSE "fixed"
    /\ UNCHANGED <<mode, catalog, data_json, arg0, the_fixes, agent, state, hist>>

\* r2 = apply_auto_fixes(r, fixes)
CallApplyFixesAgain ==
    /\ mode = "fix" /\ pc = "applied" /\ ~ret.raised
    /\ ret' = ApplyAutoFixes(ret.out, the_fixes)
    /\ prev' = ret
    /\ pc' = "reapplied"
    /\ UNCHANGED <<mode, catalog, data_json, arg0, arg, the_fixes, agent, state, hist>>

\* fixes2 = validate_spec(catalog, s1, data_json).auto_fixes, s1 the fixed spec
CallValidateFixed ==
    /\ mode = "fix" /\ pc = "fixed" /\ ~ret.raised
    /\ ret' = Validate(catalog, ret.out, data_json)
    /\ prev' = ret
    /\ the_fixes' = ret'.auto_fixes
    /\ pc' = "fixed_validated"
    /\ UNCHANGED <<mode, catalog, data_json, arg0, arg, agent, state, hist>>

\* s2 = apply_auto_fixes(s1, fixes2); prev stays the call that returned s1
CallApplyFixesToFixed ==
    /\ mode = "fix" /\ pc = "fixed_validated" /\ ~ret.raised
    /\ ret' = ApplyAutoFixes(ret.input, the_fixes)
    /\ pc' = "refixed"
    /\ UNCHANGED <<mode, catalog, data_json, arg0, arg, prev, the_fixes, agent, state, hist>>

NextFix ==
    \/ ChooseFixes
    \/ CallValidateForFixes
    \/ CallApplyFixes
    \/ CallApplyFixesAgain
    \/ CallValidateFixed
    \/ CallApplyFixesToFixed

SpecFix == InitFix /\ [][NextFix]_vars

----------------------------------------------------------------------------
(* SchemaCatalog.from_dict, called on a schema definition *)

T_sales_count == <<"s", "a", "l", "e", "s", "_", "c", "o", "u", "n", "t">>
T_visit_count == <<"v", "i", "s", "i", "t", "_", "c", "o", "u", "n", "t">>
T_Price == <<"P", "r", "i", "c", "e">>

\* The columns a definition can declare (unit NoneT: no unit declared).
RawColumns ==
    {RawColumn(name, dtype, unit) :
        name \in {T_revenue, T_Price, T_sales_count, T_visit_count, T_count, T_region},
        dtype \in {"float64", "int32", "object", "datetime64[ns]"},
        unit \in {NoneT, T_EUR}}

\* Schema definitions of one table with two columns, in file order; the two
\* columns may carry the same name.
RawDefinitions ==
    {<<[table_name |-> "sales", columns |-> <<c, d>>]>> : c \in RawColumns, d \in RawColumns}

InitLoad ==
    /\ mode = "load"
    /\ catalog = <<>>
    /\ data_json = [present |-> FALSE, answer |-> NoneT]
    /\ pc = "input"
    /\ arg0 \in RawDefinitions
    /\ arg = arg0
    /\ prev = NoCall
    /\ ret = NoCall
    /\ the_fixes = EmptyDict
    /\ agent = "none"
    /\ state = EmptyDict
    /\ hist = EmptyDict

\* catalog = SchemaCatalog.from_dict(raw): no statement of lines 48-61 raises
\* for a definition whose columns have a name and a dtype.
CallFromDict ==
    /\ mode = "load" /\ pc = "input"
    /\ ret' = [raised |-> FALSE, out |-> FromDict(arg0)]
    /\ catalog' = ret'.out
    /\ prev' = ret
    /\ pc' = "loaded"
    /\ UNCHANGED <<mode, data_json, arg0, arg, agent, state, hist, the_fixes>>

\* catalog.get("sales").get_column(name)
CallGetColumn ==
    /\ mode = "load" /\ pc = "loaded"
    /\ \E name \in {T_revenue, T_Price, T_sales_count, T_region} :
        ret' = [raised |-> FALSE, name |-> name,
                out |-> GetColumn(catalog[CatalogGet(catalog, "sales")], name)]
    /\ prev' = ret
    /\ pc' = "looked_up"
    /\ UNCHANGED <<mode, catalog, data_json, arg0, arg, agent, state, hist, the_fixes>>

NextLoad == CallFromDict \/ CallGetColumn

SpecLoad == InitLoad /\ [][NextLoad]_vars

----------------------------------------------------------------------------
(* renderer/chart_renderer.py and agent/tools.py: the render tool *)

\* render_chart, lines 36-48: the axis as a dict
RenderAxis(encoding, k) ==
    IF Get(encoding, k, OtherAxis).kind = "str" THEN [field |-> Get(encoding, k, OtherAxis).s]
    ELSE IF Get(encoding, k, OtherAxis).kind = "dict" THEN Get(encoding, k, OtherAxis).d
    ELSE EmptyDict

\* render_chart raises for this spec whatever the data: no chart_type key
\* (line 27), no encoding or one without .get (lines 28, 36), a missing field
\* (line 54), an unsupported chart type (line 163).
RenderChartRaises(spec) ==
    \/ "chart_type" \notin DOMAIN spec
    \/ "encoding" \notin DOMAIN spec
    \/ spec["encoding"].kind # "dict"
    \/ Get(RenderAxis(spec["encoding"].d, "x"), "field", NoneT) = NoneT
    \/ Get(RenderAxis(spec["encoding"].d, "y"), "field", NoneT) = NoneT
    \/ spec["chart_type"] \notin {"line", "bar", "area", "pie"}

\* create_tools.render_tool_fn with render_chart_tool: the statuses the tool
\* can return for the stored chart_spec. Reading the rows and writing the
\* file can fail for any spec.
RenderStatuses(chart_spec) ==
    IF chart_spec.kind = "none" \/ RenderChartRaises(chart_spec.v)
    THEN {"error"}
    ELSE {"success", "error"}

----------------------------------------------------------------------------
(* agent/tools.py, agent/agents.py, agent/orchestrator.py: one workflow run *)

\* What the text-generation service can answer with, once parsed.
GeneratedSpecs ==
    {SpecDict(NoneS, NoneS, DictEnc(EncDict(StrAxis(T_month), StrAxis(T_revenue)))),
     SpecDict("nosuch", NoneS, DictEnc(EncDict(StrAxis(T_month), StrAxis(T_revenue)))),
     SpecDict("sales", "bar",
              DictEnc(EncDict(DictAxis(AxisDict(T_month, "temporal", NoTitle, NoneS)),
                              StrAxis(T_revenue))))}

\* What llm.chat does: it raises, or it answers with text that is not JSON,
\* with JSON that is not an object (null, a list, a number), or with a JSON
\* object that is the spec or wraps it under "chart_spec".
LlmResponses ==
    {[kind |-> k, wrapped |-> FALSE, spec |-> EmptyDict] : k \in {"raise", "text", "scalar"}}
    \cup {[kind |-> "object", wrapped |-> w, spec |-> g] : w \in BOOLEAN, g \in GeneratedSpecs}

GenerationError(message) ==
    [raised |-> FALSE, status |-> "error", message |-> message, chart_spec |-> EmptyDict]

\* GenerateSpec as it would be without the `except Exception` clause of lines
\* 205-206 and 266-267: only a JSONDecodeError is turned into an error value.
GenerateSpecParseErrorsOnly(response) ==
    IF response.kind \in {"raise", "scalar"}
    THEN [raised |-> TRUE, status |-> "none", message |-> "", chart_spec |-> EmptyDict]
    ELSE IF response.kind = "text" THEN GenerationError("Failed to parse JSON")
    ELSE [raised |-> FALSE, status |-> "success", message |-> "", chart_spec |-> response.spec]

\* The try block of propose_chart_spec (lines 189-206) and of
\* repair_chart_spec (lines 250-267): json.loads fails on text (line 203 /
\* 264), llm.chat failing and data.get on a non-object are caught by line
\* 205 / 266, and data.get("chart_spec", data) is the spec, wrapped or not.
GenerateSpec(response) ==
    IF response.kind = "raise" THEN GenerationError("chat failed")
    ELSE IF response.kind = "text" THEN GenerationError("Failed to parse JSON")
    ELSE IF response.kind = "scalar" THEN GenerationError("object has no attribute get")
    ELSE [raised |-> FALSE, status |-> "success", message |-> "", chart_spec |-> response.spec]

\* propose_chart_spec and repair_chart_spec: the prompt is built from text
\* and from JSON values, then the same try block runs.
ProposeChartSpec(response) == GenerateSpec(response)
RepairChartSpec(response) == GenerateSpec(response)

\* The dict json.dumps(result) carries when the status is not success
\* (tools.py lines 204, 206, 265, 267).
ErrorValue(message) ==
    [status |-> "error", message |-> message, raw_response |-> "unavailable"]

\* create_tools.propose_tool_fn (lines 316-323) and repair_tool_fn (lines
\* 348-359): the JSON the tool returns is the spec on success and the error
\* dict otherwise; repair_tool_fn also turns an exception into an error dict.
GenerationToolResult(result) ==
    IF result.raised THEN [status |-> "error", message |-> "exception"]
    ELSE IF result.status = "success" THEN result.chart_spec
    ELSE ErrorValue(result.message)

\* The chart_spec the agent stores is the tool's error dict.
IsErrorValue(chart_spec) ==
    chart_spec.kind = "dict" /\ "status" \in DOMAIN chart_spec.v

NoSpec == [kind |-> "none", v |-> EmptyDict]
SomeSpec(v) == [kind |-> "dict", v |-> v]

NoValidation == [kind |-> "none", ok |-> FALSE, issues |-> <<>>, auto_fixes |-> EmptyDict]

\* create_tools.validate_tool_fn with validate_chart_spec_tool: the result
\* dict, or {"ok": False, "error": ...} when the spec is null or validation raised
ToolResult(chart_spec, r) ==
    IF chart_spec.kind = "none" \/ r.raised
    THEN [kind |-> "error", ok |-> FALSE, issues |-> <<>>, auto_fixes |-> EmptyDict]
    ELSE [kind |-> "result", ok |-> r.ok, issues |-> r.issues, auto_fixes |-> r.auto_fixes]
ValidateTool(cat, chart_spec, data) == ToolResult(chart_spec, Validate(cat, chart_spec.v, data))

\* create_tools.apply_fixes_tool_fn: the fixed spec, or {"error": ...}
FixesResult(chart_spec, fixes, r) ==
    IF chart_spec.kind = "none" /\ DOMAIN fixes # {}
    THEN SomeSpec([error |-> "TypeError"])
    ELSE IF chart_spec.kind = "none" THEN NoSpec
    ELSE IF r.raised THEN SomeSpec([error |-> "AttributeError"])
    ELSE SomeSpec(r.out)
ApplyFixesTool(chart_spec, fixes) ==
    FixesResult(chart_spec, fixes, ApplyAutoFixes(chart_spec.v, fixes))

\* agents.py: can_handoff_to of each agent
CanHandoffTo ==
    [ProposerAgent |-> {"ValidatorAgent"},
     ValidatorAgent |-> {"RendererAgent", "RepairAgent"},
     RepairAgent |-> {"ValidatorAgent"},
     RendererAgent |-> {}]

\* orchestrator.py lines 109-119: the initial workflow state
InitialState(render) ==
    [chart_spec |-> NoSpec, validation_result |-> NoValidation,
     render_requested |-> render, render_result |-> "none"]

\* What the run has done so far: repairs counts the repair tool's calls,
\* cycles those that followed a failed validation of the spec they repair,
\* renders the render tool's calls; validated is the verdict of the most recent
\* validation of the current chart_spec ("no": not validated since it was
\* written); unguarded tells that the render tool ran without a passed
\* validation of the current spec or without rendering being requested.
\* generation is the last propose_chart_spec / repair_chart_spec call: what
\* llm.chat did and what the function returned; unparsable tells that the text
\* of such a call was not JSON, continued that a tool was called after that;
\* rerendered tells that the render tool ran again after it reported an error.
NoGeneration ==
    [called |-> FALSE, response |-> [kind |-> "none", wrapped |-> FALSE, spec |-> EmptyDict],
     result |-> GenerationError("")]
Generation(response, result) == [called |-> TRUE, response |-> response, result |-> result]

InitialHist ==
    [repairs |-> 0, cycles |-> 0, renders |-> 0, validated |-> "no", unguarded |-> FALSE,
     generation |-> NoGeneration, unparsable |-> FALSE, continued |-> FALSE, rerendered |-> FALSE]

MaxRepairs == 4
MaxRenders == 2

Init ==
    /\ mode = "run"
    /\ catalog = FromDict(<<RawSales, RawOrders>>)
    /\ data_json \in {d \in DataJsons : d.present}
    /\ pc = "run"
    /\ arg0 = EmptyDict /\ arg = EmptyDict
    /\ prev = NoCall /\ ret = NoCall
    /\ the_fixes = EmptyDict
    /\ agent = "ProposerAgent"
    /\ \E render \in BOOLEAN : state = InitialState(render)
    /\ hist = InitialHist

Written(spec) == IF spec = state.chart_spec THEN hist.validated ELSE "no"

\* ProposerAgent calls propose_chart_spec and stores the tool's result.
Propose ==
    /\ mode = "run" /\ agent = "ProposerAgent"
    /\ \E r \in LlmResponses :
        /\ state' = [state EXCEPT !.chart_spec =
                        SomeSpec(GenerationToolResult(ProposeChartSpec(r)))]
        /\ hist' = [hist EXCEPT !.validated = Written(state'.chart_spec),
                                !.generation = Generation(r, ProposeChartSpec(r)),
                                !.unparsable = @ \/ r.kind = "text",
                                !.continued = @ \/ hist.unparsable]
    /\ UNCHANGED <<mode, catalog, data_json, pc, arg0, arg, prev, ret, agent, the_fixes>>

\* ValidatorAgent calls validate_chart_spec on state.chart_spec and stores the result.
ValidateStep ==
    /\ mode = "run" /\ agent = "ValidatorAgent"
    /\ state' = [state EXCEPT
                    !.validation_result = ValidateTool(catalog, state.chart_spec, data_json)]
    /\ hist' = [hist EXCEPT !.validated = IF state'.validation_result.ok THEN "ok" ELSE "issues",
                            !.continued = @ \/ hist.unparsable]
    /\ UNCHANGED <<mode, catalog, data_json, pc, arg0, arg, prev, ret, agent, the_fixes>>

\* ValidatorAgent calls apply_auto_fixes with the stored auto_fixes and stores the spec.
ApplyFixesStep ==
    /\ mode = "run" /\ agent = "ValidatorAgent"
    /\ state.validation_result.kind = "result"
    /\ state' = [state EXCEPT !.chart_spec =
                    ApplyFixesTool(state.chart_spec, state.validation_result.auto_fixes)]
    /\ hist' = [hist EXCEPT !.validated = Written(state'.chart_spec),
                            !.continued = @ \/ hist.unparsable]
    /\ UNCHANGED <<mode, catalog, data_json, pc, arg0, arg, prev, ret, agent, the_fixes>>

\* RepairAgent calls repair_chart_spec and stores the tool's result.
Repair ==
    /\ mode = "run" /\ agent = "RepairAgent"
    /\ hist.repairs < MaxRepairs
    /\ \E r \in LlmResponses :
        /\ state' = [state EXCEPT !.chart_spec =
                        SomeSpec(GenerationToolResult(RepairChartSpec(r)))]
        /\ hist' = [hist EXCEPT !.repairs = @ + 1,
                                !.cycles = IF hist.validated = "issues" THEN @ + 1 ELSE @,
                                !.validated = Written(state'.chart_spec),
                                !.generation = Generation(r, RepairChartSpec(r)),
                                !.unparsable = @ \/ r.kind = "text",
                                !.continued = @ \/ hist.unparsable]
    /\ UNCHANGED <<mode, catalog, data_json, pc, arg0, arg, prev, ret, agent, the_fixes>>

\* RendererAgent calls render_chart on state.chart_spec and stores the result.
Render ==
    /\ mode = "run" /\ agent = "RendererAgent"
    /\ hist.renders < MaxRenders
    /\ \E status \in RenderStatuses(state.chart_spec) :
        state' = [state EXCEPT !.render_result = status]
    /\ hist' = [hist EXCEPT !.renders = @ + 1,
                            !.unguarded = @ \/ hist.validated # "ok" \/ ~state.render_requested,
                            !.continued = @ \/ hist.unparsable,
                            !.rerendered = @ \/ state.render_result = "error"]
    /\ UNCHANGED <<mode, catalog, data_json, pc, arg0, arg, prev, ret, agent, the_fixes>>

\* The agent in control hands off to an agent of its can_handoff_to list.
Handoff ==
    /\ mode = "run" /\ agent # "done"
    /\ \E to \in CanHandoffTo[agent] : agent' = to
    /\ UNCHANGED <<mode, catalog, data_json, pc, arg0, arg, prev, ret, state, hist, the_fixes>>

\* orchestrator.py lines 157-177: the result built from the final state.
\* ok and validated mirror validation_result.ok (False when there is none);
\* render is the render result, output_path is set when it reports success.
RunResult(final_state) ==
    [kind |-> "result", ok |-> final_state.validation_result.ok,
     validated |-> final_state.validation_result.ok,
     render |-> final_state.render_result,
     output_path |-> final_state.render_result = "success"]

\* orchestrator.py line 211: the result when the workflow raised
WorkflowFailed ==
    [kind |-> "error", ok |-> FALSE, validated |-> FALSE, render |-> "none",
     output_path |-> FALSE]

\* The agent in control answers without a handoff: the workflow returns and
\* run builds its result (lines 122-128, 157-193). The response carries the
\* final state, or carries none and line 128 falls back on the initial state,
\* or the workflow raised and lines 195-211 answer.
Finish ==
    /\ mode = "run" /\ agent # "done"
    /\ agent' = "done"
    /\ \E outcome \in {"state", "no_state", "raised"} :
        ret' = IF outcome = "state" THEN RunResult(state)
               ELSE IF outcome = "no_state"
                    THEN RunResult(InitialState(state.render_requested))
               ELSE WorkflowFailed
    /\ UNCHANGED <<mode, catalog, data_json, pc, arg0, arg, prev, state, hist, the_fixes>>

Next == Propose \/ ValidateStep \/ ApplyFixesStep \/ Repair \/ Render \/ Handoff \/ Finish

Spec == Init /\ [][Next]_vars

----------------------------------------------------------------------------
(* agent/orchestrator.py: two runs of one ChartOrchestrator, interleaved.  *)
(* The runs share the catalog, the data JSON and the tools built in        *)
(* __init__ (lines 56-76); each run call builds its own initial state      *)
(* (lines 108-125). The tool functions are synchronous, so the runs        *)
(* interleave between tool calls. In this mode agent, state, hist and ret  *)
(* hold one entry per run.                                                 *)

Runs == {1, 2}

\* The tool calls one run may make.
MaxPairSteps == 3

\* What the text-generation service answers in these runs: text that is not
\* JSON, a spec that validates, a spec that fails an intent rule.
PairResponses ==
    {r \in LlmResponses :
        \/ r.kind = "text"
        \/ r.kind = "object" /\ ~r.wrapped /\ Get(r.spec, "data_source", NoneS) # "nosuch"}

\* RunStateAfter as it would be if the runs worked on the one initial_state
\* dict given to AgentWorkflow in __init__ (line 75) instead of their own.
RunStateShared(states, i, new) == [j \in DOMAIN states |-> new]

\* A tool result stored by run i goes to the state of run i: the state is the
\* dict built by that run call (lines 109-119) and handed to workflow.run.
RunStateAfter(states, i, new) == [states EXCEPT ![i] = new]

\* What run i has done: the tool calls it made and the spec it last had validated.
PairHistAfter(h, i, validated_spec) ==
    [h EXCEPT ![i] = [steps |-> h[i].steps + 1, validated_spec |-> validated_spec]]

InitPair ==
    /\ mode = "pair"
    /\ catalog \in Catalogs
    /\ data_json \in DataJsons
    /\ pc = "run"
    /\ arg0 = [catalog |-> catalog, data_json |-> data_json]
    /\ arg = EmptyDict
    /\ prev = NoCall
    /\ ret = [i \in Runs |-> NoCall]
    /\ the_fixes = EmptyDict
    /\ agent = [i \in Runs |-> "ProposerAgent"]
    /\ state = [i \in Runs |-> InitialState(TRUE)]
    /\ hist = [i \in Runs |-> [steps |-> 0, validated_spec |-> NoSpec]]

\* The ProposerAgent of run i calls propose_chart_spec and stores the result.
PairPropose(i) ==
    /\ mode = "pair"
    /\ agent[i] = "ProposerAgent" /\ hist[i].steps < MaxPairSteps
    /\ \E r \in PairResponses :
        state' = RunStateAfter(state, i,
                    [state[i] EXCEPT !.chart_spec =
                        SomeSpec(GenerationToolResult(ProposeChartSpec(r)))])
    /\ hist' = PairHistAfter(hist, i, hist[i].validated_spec)
    /\ UNCHANGED <<mode, catalog, data_json, pc, arg0, arg, prev, ret, agent, the_fixes>>

\* The ValidatorAgent of run i calls validate_chart_spec on its chart_spec.
PairValidate(i) ==
    /\ mode = "pair"
    /\ agent[i] = "ValidatorAgent" /\ hist[i].steps < MaxPairSteps
    /\ state' = RunStateAfter(state, i,
                    [state[i] EXCEPT !.validation_result =
                        ValidateTool(catalog, state[i].chart_spec, data_json)])
    /\ hist' = PairHistAfter(hist, i, state[i].chart_spec)
    /\ UNCHANGED <<mode, catalog, data_json, pc, arg0, arg, prev, ret, agent, the_fixes>>

\* The ValidatorAgent of run i calls apply_auto_fixes with its stored auto_fixes.
PairApplyFixes(i) ==
    /\ mode = "pair"
    /\ agent[i] = "ValidatorAgent" /\ hist[i].steps < MaxPairSteps
    /\ state[i].validation_result.kind = "result"
    /\ state' = RunStateAfter(state, i,
                    [state[i] EXCEPT !.chart_spec =
                        ApplyFixesTool(state[i].chart_spec,
                                       state[i].validation_result.auto_fixes)])
    /\ hist' = PairHistAfter(hist, i, hist[i].validated_spec)
    /\ UNCHANGED <<mode, catalog, data_json, pc, arg0, arg, prev, ret, agent, the_fixes>>

\* The RepairAgent of run i calls repair_chart_spec and stores the result.
PairRepair(i) ==
    /\ mode = "pair"
    /\ agent[i] = "RepairAgent" /\ hist[i].steps < MaxPairSteps
    /\ \E r \in PairResponses :
        state' = RunStateAfter(state, i,
                    [state[i] EXCEPT !.chart_spec =
                        SomeSpec(GenerationToolResult(RepairChartSpec(r)))])
    /\ hist' = PairHistAfter(hist, i, hist[i].validated_spec)
    /\ UNCHANGED <<mode, catalog, data_json, pc, arg0, arg, prev, ret, agent, the_fixes>>

\* The RendererAgent of run i calls render_chart on its chart_spec.
PairRender(i) ==
    /\ mode = "pair"
    /\ agent[i] = "RendererAgent" /\ hist[i].steps < MaxPairSteps
    /\ \E status \in RenderStatuses(state[i].chart_spec) :
        state' = RunStateAfter(state, i, [state[i] EXCEPT !.render_result = status])
    /\ hist' = PairHistAfter(hist, i, hist[i].validated_spec)
    /\ UNCHANGED <<mode, catalog, data_json, pc, arg0, arg, prev, ret, agent, the_fixes>>

\* The agent in control of run i hands off.
PairHandoff(i) ==
    /\ mode = "pair"
    /\ agent[i] # "done"
    /\ \E to \in CanHandoffTo[agent[i]] : agent' = [agent EXCEPT ![i] = to]
    /\ UNCHANGED <<mode, catalog, data_json, pc, arg0, arg, prev, ret, state, hist, the_fixes>>

\* Run i returns: its result is built from its own final state.
PairFinish(i) ==
    /\ mode = "pair"
    /\ agent[i] # "done"
    /\ agent' = [agent EXCEPT ![i] = "done"]
    /\ ret' = [ret EXCEPT ![i] = RunResult(state[i])]
    /\ UNCHANGED <<mode, catalog, data_json, pc, arg0, arg, prev, state, hist, the_fixes>>

NextPair ==
    \/ \E i \in Runs : PairPropose(i)
    \/ \E i \in Runs : PairValidate(i)
    \/ \E i \in Runs : PairApplyFixes(i)
    \/ \E i \in Runs : PairRepair(i)
    \/ \E i \in Runs : PairRender(i)
    \/ \E i \in Runs : PairHandoff(i)
    \/ \E i \in Runs : PairFinish(i)

SpecPair == InitPair /\ [][NextPair]_vars

----------------------------------------------------------------------------
(* Properties of one workflow run (specification Spec) *)

\* C1: the repair/validate cycle is bounded: a spec that stays invalid is
\* repaired at most the recommended 3 times before the run ends as failed.
\* cycles counts the repairs that followed a failed validation of the spec
\* they repair.
C1_RepairCyclesBounded == hist.cycles <= 3

\* C2: the render tool is invoked only when the most recent validation of the
\* current chart_spec returned ok and rendering was requested.
C2_RenderOnlyWhenValidated == hist.renders > 0 => ~hist.unguarded

----------------------------------------------------------------------------
(* Properties of the functions (specification SpecFn) *)

Codes(issues) == [i \in 1..Len(issues) |-> issues[i].code]
Messages(issues) == [i \in 1..Len(issues) |-> issues[i].message]
WithCode(issues, code) == SelectSeq(issues, LAMBDA i : i.code = code)

\* The spec validate_spec works on: the normalized form of the caller's spec.
Normalized == Normalize(catalog, arg0).out
NormalizedX == Normalized["encoding"].d["x"].d
NormalizedY == Normalized["encoding"].d["y"].d
SourceTable == CatalogGet(catalog, Get(Normalized, "data_source", NoneS))
FieldFails(axis) ==
    \/ Get(axis, "field", NoneT) = NoneT
    \/ GetColumn(catalog[SourceTable], axis["field"]) = 0

\* validate_spec returned, and the data source and both fields resolved.
ValidatedResolved ==
    /\ pc = "validated" /\ ~ret.raised
    /\ SourceTable # 0
    /\ ~FieldFails(NormalizedX) /\ ~FieldFails(NormalizedY)

XType == Get(NormalizedX, "type", NoneS)
YType == Get(NormalizedY, "type", NoneS)
ChartType == Get(Normalized, "chart_type", NoneS)
XColumn == catalog[SourceTable].columns[GetColumn(catalog[SourceTable], NormalizedX["field"])]
YColumn == catalog[SourceTable].columns[GetColumn(catalog[SourceTable], NormalizedY["field"])]

\* C3: normalization is idempotent: normalizing a normalized spec returns it unchanged.
C3_NormalizeIdempotent == pc = "renormalized" => ~ret.raised /\ ret.out = prev.out

\* A spec whose data source, axis types and chart type were all inferred was
\* normalized twice.
C3_Witness ==
    /\ pc = "renormalized"
    /\ DOMAIN arg0 = {"encoding"}
    /\ "data_source" \in DOMAIN ret.out
    /\ Get(ret.out["encoding"].d["x"].d, "type", NoneS) = "temporal"
    /\ ret.out["chart_type"] = "line"

\* C4: normalization (and so validation) leaves the caller's spec, with its
\* nested encoding and x and y entries, as it was before the call.
C4_InputNotMutated == pc \in {"normalized", "validated"} => arg = arg0

\* C5: normalization and validation never raise, whatever the shape of the
\* input spec.
C5_NeverRaises == pc \in {"normalized", "validated"} => ~ret.raised

\* C6: a returned ValidationResult has ok = true exactly when it has no issue.
C6_OkIffNoIssues == (pc = "validated" /\ ~ret.raised) => (ret.ok <=> ret.issues = <<>>)

\* A result with issues that also stages auto-fixes.
C6_Witness ==
    /\ pc = "validated" /\ ~ret.raised
    /\ ~ret.ok /\ Len(ret.issues) = 1 /\ ret.auto_fixes # EmptyDict

\* C7: resolution failures short-circuit: a missing data source gives exactly
\* one MISSING_FIELD issue, an unknown one exactly one TABLE_NOT_FOUND issue,
\* an absent or unknown field one FIELD_NOT_FOUND issue per failing axis, x
\* before y; in each case ok is false, no other issue is reported and
\* auto_fixes is empty.
C7_ResolutionShortCircuits ==
    (pc = "validated" /\ ~ret.raised) =>
        /\ Get(Normalized, "data_source", NoneS) = NoneS =>
            /\ Codes(ret.issues) = <<"MISSING_FIELD">>
            /\ ~ret.ok /\ ret.auto_fixes = EmptyDict
        /\ (Get(Normalized, "data_source", NoneS) # NoneS /\ SourceTable = 0) =>
            /\ Codes(ret.issues) = <<"TABLE_NOT_FOUND">>
            /\ ~ret.ok /\ ret.auto_fixes = EmptyDict
        /\ (SourceTable # 0 /\ (FieldFails(NormalizedX) \/ FieldFails(NormalizedY))) =>
            /\ ~ret.ok /\ ret.auto_fixes = EmptyDict
            /\ Codes(ret.issues) =
                  (IF FieldFails(NormalizedX) THEN <<"FIELD_NOT_FOUND">> ELSE <<>>)
                  \o (IF FieldFails(NormalizedY) THEN <<"FIELD_NOT_FOUND">> ELSE <<>>)
            /\ FieldFails(NormalizedX) =>
                  ret.issues[1].message \in {"X field missing", "X field not found in table"}
            /\ FieldFails(NormalizedY) =>
                  ret.issues[Len(ret.issues)].message
                      \in {"Y field missing", "Y field not found in table"}

\* Both fields failed on a table that resolved: x is missing, y is unknown.
C7_Witness ==
    /\ pc = "validated" /\ ~ret.raised
    /\ SourceTable # 0
    /\ Messages(ret.issues) = <<"X field missing", "Y field not found in table">>

\* The number of chart-type intent rules the normalized spec violates.
IntentViolations ==
    (IF ChartType \in {"line", "area"} /\ XType # "temporal" THEN 1 ELSE 0)
    + (IF ChartType = "bar" /\ XType = "temporal" THEN 1 ELSE 0)
    + (IF ChartType = "pie" /\ XType # NoneS /\ XType # "nominal" THEN 1 ELSE 0)
    + (IF ChartType = "pie" /\ YType # NoneS /\ YType # "quantitative" THEN 1 ELSE 0)

\* C8: once the data source and fields resolve, DTYPE_MISMATCH is reported
\* for x exactly when x.type is temporal and the column is not, for y exactly
\* when y.type is quantitative and the column is not numeric or y.type is
\* nominal and the column is not text; the x and the y mismatch are reported
\* together, and the intent rules are still evaluated.
C8_DtypeMismatchExact ==
    ValidatedResolved =>
        /\ ("X expects temporal" \in {ret.issues[i].message : i \in 1..Len(ret.issues)})
              <=> (XType = "temporal" /\ XColumn.dtype # "datetime64[ns]")
        /\ ("Y expects numeric" \in {ret.issues[i].message : i \in 1..Len(ret.issues)})
              <=> (YType = "quantitative"
                   /\ YColumn.dtype \notin {"float64", "int64", "int32", "float32"})
        /\ ("Y expects nominal" \in {ret.issues[i].message : i \in 1..Len(ret.issues)})
              <=> (YType = "nominal" /\ YColumn.dtype \notin {"object", "string"})
        /\ Len(WithCode(ret.issues, "DTYPE_MISMATCH")) =
              (IF XType = "temporal" /\ XColumn.dtype # "datetime64[ns]" THEN 1 ELSE 0)
              + (IF YType = "quantitative"
                    /\ YColumn.dtype \notin {"float64", "int64", "int32", "float32"}
                 THEN 1 ELSE 0)
              + (IF YType = "nominal" /\ YColumn.dtype \notin {"object", "string"}
                 THEN 1 ELSE 0)
        /\ \A i \in 1..Len(ret.issues) :
              ret.issues[i].code = "DTYPE_MISMATCH" =>
                  ret.issues[i].message
                      \in {"X expects temporal", "Y expects numeric", "Y expects nominal"}
        /\ Len(WithCode(ret.issues, "INTENT_RULE")) = IntentViolations

\* An x mismatch, a y mismatch and an intent issue in one result.
C8_Witness ==
    /\ ValidatedResolved
    /\ Codes(ret.issues) = <<"DTYPE_MISMATCH", "DTYPE_MISMATCH", "INTENT_RULE">>
    /\ ret.issues[1].message = "X expects temporal"

\* The messages of the intent rules the normalized spec violates, in rule order.
ExpectedIntentMessages ==
    (IF ChartType \in {"line", "area"} /\ XType # "temporal"
     THEN <<"Line/area must have temporal x">> ELSE <<>>)
    \o (IF ChartType = "bar" /\ XType = "temporal"
        THEN <<"Bar x should be categorical">> ELSE <<>>)
    \o (IF ChartType = "pie" /\ XType # NoneS /\ XType # "nominal"
        THEN <<"Pie chart x (labels) must be nominal/categorical">> ELSE <<>>)
    \o (IF ChartType = "pie" /\ YType # NoneS /\ YType # "quantitative"
        THEN <<"Pie chart y (values) must be quantitative">> ELSE <<>>)

\* C9: a bar chart with a temporal x is never ok and, once the data source
\* and fields resolve, gets an INTENT_RULE issue; in general one INTENT_RULE
\* issue is reported for each violated rule and for nothing else.
C9_IntentRulesExact ==
    /\ (pc = "validated" /\ ~ret.raised /\ ChartType = "bar" /\ XType = "temporal") => ~ret.ok
    /\ ValidatedResolved =>
          /\ Messages(WithCode(ret.issues, "INTENT_RULE")) = ExpectedIntentMessages
          /\ (ChartType = "bar" /\ XType = "temporal") =>
                /\ "INTENT_RULE" \in {ret.issues[i].code : i \in 1..Len(ret.issues)}
                /\ ~ret.ok

\* A bar chart on a temporal x column, rejected for that alone.
C9_Witness ==
    /\ ValidatedResolved
    /\ Get(arg0, "chart_type", NoneS) = "bar"
    /\ XType = "temporal"
    /\ Messages(ret.issues) = <<"Bar x should be categorical">>
    /\ ~ret.ok

\* The y unit: the column's declared unit, else the hint from the data JSON.
ExpectedUnit ==
    IF YColumn.unit # NoneT THEN YColumn.unit
    ELSE IF data_json.present THEN ExtractCurrencyFromAnswer(data_json)
    ELSE NoneT

HumanizedYField == StrTitle(ReplaceUnderscore(NormalizedY["field"]))

\* The y axis title: y.title when it is non-empty text, else the humanized field.
ExpectedAxisTitle ==
    IF "title" \in DOMAIN NormalizedY /\ NormalizedY["title"].s # NoneT
    THEN NormalizedY["title"].s
    ELSE HumanizedYField

MetaStaged(title, unit) ==
    /\ "meta" \in DOMAIN ret.auto_fixes
    /\ ret.auto_fixes["meta"]["y_units"] = unit
    /\ ret.auto_fixes["meta"]["y_title"] =
          IF Contains(<<"(">> \o unit \o <<")">>, title) THEN title
          ELSE title \o <<" ", "(">> \o unit \o <<")">>

ResolvedCall ==
    /\ pc = "validated" /\ ~Normalize(catalog, arg0).raised
    /\ SourceTable # 0
    /\ ~FieldFails(NormalizedX) /\ ~FieldFails(NormalizedY)

C11_TimeUnitDefault ==
    ValidatedResolved =>
        /\ ("encoding" \in DOMAIN ret.auto_fixes)
              <=> (ChartType \in {"line", "area"} /\ "time_unit" \notin DOMAIN NormalizedX)
        /\ "encoding" \in DOMAIN ret.auto_fixes =>
              ret.auto_fixes["encoding"] = [x |-> [time_unit |-> "yearmonth"]]
        /\ (ChartType \in {"bar", "pie"} \/ "time_unit" \in DOMAIN NormalizedX) =>
              "encoding" \notin DOMAIN ret.auto_fixes

\* An area chart without a time unit gets the default staged, with no unit fix beside it.
C11_Witness ==
    /\ ValidatedResolved
    /\ Get(arg0, "chart_type", NoneS) = "area"
    /\ ret.auto_fixes = [encoding |-> [x |-> [time_unit |-> "yearmonth"]]]

\* C12: validation is deterministic: a second validate_spec call on the same
\* spec object, catalog and data JSON returns what the first call returned
\* (ok, issues and auto_fixes), and raises exactly when the first call raised.
C12_ValidateDeterministic ==
    pc = "revalidated" =>
        /\ ret.raised = prev.raised
        /\ ret.ok = prev.ok
        /\ ret.issues = prev.issues
        /\ ret.auto_fixes = prev.auto_fixes

\* The first call rewrote the caller's spec, and the second call on the
\* rewritten object returned the same issue and the same fixes.
C12_Witness ==
    /\ pc = "revalidated" /\ ~ret.raised
    /\ arg # arg0
    /\ Len(ret.issues) = 1
    /\ DOMAIN ret.auto_fixes = {"encoding", "meta"}

\* The first table, in load order, with both fields among its columns; 0: none.
FirstCovering ==
    IF \E t \in 1..Len(catalog) :
          {NormalizedX["field"], NormalizedY["field"]}
              \subseteq {catalog[t].columns[i].name : i \in 1..Len(catalog[t].columns)}
    THEN CHOOSE t \in 1..Len(catalog) :
          /\ {NormalizedX["field"], NormalizedY["field"]}
                \subseteq {catalog[t].columns[i].name : i \in 1..Len(catalog[t].columns)}
          /\ \A u \in 1..(t - 1) :
                ~({NormalizedX["field"], NormalizedY["field"]}
                    \subseteq {catalog[u].columns[i].name : i \in 1..Len(catalog[u].columns)})
    ELSE 0

\* C20: _normalize_spec sets data_source to the name of the first table, in
\* load order, that has both x.field and y.field, exactly when the input has
\* no data_source and both fields are present; a given data_source is kept,
\* and when no table covers both fields data_source stays absent.
C20_DataSourceInference ==
    (pc = "normalized" /\ ~ret.raised) =>
        /\ "data_source" \in DOMAIN arg0 => ret.out["data_source"] = arg0["data_source"]
        /\ ("data_source" \notin DOMAIN arg0
            /\ "field" \in DOMAIN NormalizedX /\ "field" \in DOMAIN NormalizedY
            /\ FirstCovering # 0) =>
              /\ "data_source" \in DOMAIN ret.out
              /\ ret.out["data_source"] = catalog[FirstCovering].table_name
        /\ ("data_source" \notin DOMAIN arg0
            /\ ~("field" \in DOMAIN NormalizedX /\ "field" \in DOMAIN NormalizedY
                 /\ FirstCovering # 0)) =>
              "data_source" \notin DOMAIN ret.out

\* Both tables have month and region; the one loaded first, orders, was chosen.
C20_Witness ==
    /\ pc = "normalized" /\ ~ret.raised
    /\ "data_source" \notin DOMAIN arg0
    /\ Get(NormalizedX, "field", NoneT) = T_month
    /\ Get(NormalizedY, "field", NoneT) = T_region
    /\ catalog[1].table_name = "orders"
    /\ ret.out["data_source"] = "orders"

----------------------------------------------------------------------------
(* Properties of apply_auto_fixes (specification SpecFix) *)

\* C13: auto-fix application is idempotent: applying the same fixes to the
\* result of apply_auto_fixes returns a spec equal to that result, also as
\* the result object stands after the second call.
C13_ApplyFixesIdempotent ==
    pc = "reapplied" => ~ret.raised /\ ret.out = prev.out /\ ret.out = ret.input

\* A string x was made a dict by the first call and kept its field and the
\* staged time unit through the second.
C13_Witness ==
    /\ pc = "reapplied" /\ ~ret.raised
    /\ "encoding" \in DOMAIN arg0 /\ arg0["encoding"].kind = "dict"
    /\ Get(arg0["encoding"].d, "x", OtherAxis) = StrAxis(T_month)
    /\ DOMAIN the_fixes = {"encoding", "meta", "chart_type"}
    /\ ret.out["encoding"].d["x"] = DictAxis([field |-> T_month, time_unit |-> "yearmonth"])

\* fixes supplies the key k of the spec's encoding / of its x dict / of its meta
FixesSupplyEncoding(k) ==
    "encoding" \in DOMAIN the_fixes /\ k \in DOMAIN the_fixes["encoding"]
FixesSupplyX(k) == FixesSupplyEncoding("x") /\ k \in DOMAIN the_fixes["encoding"]["x"]
FixesSupplyMeta(k) == "meta" \in DOMAIN the_fixes /\ k \in DOMAIN the_fixes["meta"]

\* C14: apply_auto_fixes removes nothing: every top-level key of the spec,
\* every key of its meta and every key of its encoding, with encoding.y and the
\* keys inside encoding.x, is in the result with its value unchanged unless
\* fixes supplies that same key; with empty fixes the result is the spec.
C14_NothingRemoved ==
    (pc = "applied" /\ ~ret.raised) =>
        /\ \A k \in DOMAIN arg0 :
              /\ k \in DOMAIN ret.out
              /\ k \notin DOMAIN the_fixes => ret.out[k] = arg0[k]
        /\ "meta" \in DOMAIN arg0 =>
              \A k \in DOMAIN arg0["meta"] :
                  /\ k \in DOMAIN ret.out["meta"]
                  /\ ~FixesSupplyMeta(k) => ret.out["meta"][k] = arg0["meta"][k]
        /\ ("encoding" \in DOMAIN arg0 /\ arg0["encoding"].kind = "dict") =>
              /\ ret.out["encoding"].kind = "dict"
              /\ \A k \in DOMAIN arg0["encoding"].d :
                    /\ k \in DOMAIN ret.out["encoding"].d
                    /\ ~FixesSupplyEncoding(k) =>
                          ret.out["encoding"].d[k] = arg0["encoding"].d[k]
              /\ ("x" \in DOMAIN arg0["encoding"].d /\ arg0["encoding"].d["x"].kind = "dict") =>
                    \A k \in DOMAIN arg0["encoding"].d["x"].d :
                        /\ k \in DOMAIN ret.out["encoding"].d["x"].d
                        /\ ~FixesSupplyX(k) =>
                              ret.out["encoding"].d["x"].d[k] = arg0["encoding"].d["x"].d[k]
        /\ the_fixes = EmptyDict => ret.out = arg0

\* C15: apply_auto_fixes is pure: the call leaves the caller's spec, with its
\* encoding, encoding.x and meta, as it was before the call (the fixes
\* argument is never written).
C15_CallerSpecUnchanged == pc = "applied" => arg = arg0

\* C16: the validator's auto-fixes reach a fixed point after one
\* application: whenever validate_spec returns, s1 = apply_auto_fixes(s,
\* auto_fixes) exists, s1 validates without raising, and applying the
\* auto_fixes of that second validation to s1 returns a spec equal to s1, as
\* s1 was returned and as the s1 object stands afterwards.
C16_FixesReachFixedPoint ==
    /\ pc \in {"fixed", "fixed_validated", "refixed"} => ~ret.raised
    /\ pc = "refixed" => ret.out = prev.out /\ ret.out = ret.input

\* The first validation staged a unit fix and the time-unit default, s1 got
\* both, and the second validation staged the unit fix alone.
C16_Witness ==
    /\ pc = "refixed"
    /\ "meta" \notin DOMAIN arg0
    /\ DOMAIN the_fixes = {"meta"}
    /\ ret.out["meta"] = [y_title |-> T_Revenue_USD, y_units |-> T_USD]
    /\ Get(arg0["encoding"].d, "x", OtherAxis) = StrAxis(T_month)
    /\ ret.out["encoding"].d["x"].d =
          [field |-> T_month, type |-> "temporal", time_unit |-> "yearmonth"]

----------------------------------------------------------------------------
(* Claims about the generation tools and the run result, checked under Spec *)

\* C17: propose_chart_spec and repair_chart_spec never let an exception
\* escape: when the generated text is not valid JSON, or the chat call or the
\* handling of the parsed payload fails, the call returns status "error" with
\* a message; it returns status "success", with the parsed spec as chart_spec,
\* only when the text parsed as an object.
C17_GenerationReturnsTypedError ==
    hist.generation.called =>
        /\ ~hist.generation.result.raised
        /\ hist.generation.result.status \in {"success", "error"}
        /\ hist.generation.response.kind # "object" =>
              /\ hist.generation.result.status = "error"
              /\ hist.generation.result.message # ""
        /\ hist.generation.result.status = "success" =>
              /\ hist.generation.response.kind = "object"
              /\ hist.generation.result.chart_spec = hist.generation.response.spec

\* A repair call whose payload parsed as something that is not an object
\* returned an error value, after a proposal that had parsed.
C17_Witness ==
    /\ hist.generation.called
    /\ hist.repairs > 0
    /\ ~hist.continued
    /\ hist.generation.response.kind = "scalar"
    /\ hist.generation.result.status = "error"
    /\ IsErrorValue(state.chart_spec)

\* C18: once a proposal or a repair output could not be parsed, the run is
\* over: the error value is not stored as the chart_spec and no propose,
\* validate, apply-fixes, repair or render tool call follows in that run.
C18_ParseFailureEndsRun ==
    hist.unparsable => ~IsErrorValue(state.chart_spec) /\ ~hist.continued

\* C19: when the render tool reported status "error", the run result has ok
\* false and carries the render error, and the render tool was not called
\* again in that run.
C19_RenderFailureFailsRun ==
    /\ hist.rerendered = FALSE
    /\ agent = "done" /\ state.render_result = "error" =>
          ret.ok = FALSE /\ ret.render = "error"

----------------------------------------------------------------------------
(* Further properties of the functions (specification SpecFn) *)

\* The encoding dict and the axis, as a dict, that the caller's spec came with.
GivenEncoding ==
    IF "encoding" \in DOMAIN arg0 /\ arg0["encoding"].kind = "dict"
    THEN arg0["encoding"].d ELSE EmptyDict
GivenAxis(k) ==
    IF Get(GivenEncoding, k, OtherAxis).kind = "str" THEN [field |-> GivenEncoding[k].s]
    ELSE IF Get(GivenEncoding, k, OtherAxis).kind = "dict" THEN GivenEncoding[k].d
    ELSE EmptyDict

\* The table the returned spec's data_source names (0: none).
ReturnedTable == CatalogGet(catalog, Get(ret.out, "data_source", NoneS))

\* The encoding type the specification gives for a dtype.
TypeOfDtype(dtype) ==
    IF dtype = "datetime64[ns]" THEN "temporal"
    ELSE IF dtype \in {"float64", "int64", "int32", "float32"} THEN "quantitative"
    ELSE IF dtype \in {"object", "string"} THEN "nominal"
    ELSE NoneS

\* C21: for each axis that comes without a type, _normalize_spec sets type
\* from the dtype of the field's column in the resolved table (temporal ->
\* temporal, numeric -> quantitative, text -> nominal); type stays absent when
\* the table or the column is unresolved; a type that was given is kept.
C21_AxisTypeInferred ==
    pc = "normalized" /\ ~ret.raised =>
        \A k \in {"x", "y"} :
            LET given == GivenAxis(k)
                out == ret.out["encoding"].d[k].d
            IN  IF "type" \in DOMAIN given
                THEN "type" \in DOMAIN out /\ out["type"] = given["type"]
                ELSE IF /\ ReturnedTable # 0
                        /\ "field" \in DOMAIN given
                        /\ GetColumn(catalog[ReturnedTable], given["field"]) # 0
                THEN /\ "type" \in DOMAIN out
                     /\ out["type"] =
                           TypeOfDtype(catalog[ReturnedTable].columns[
                               GetColumn(catalog[ReturnedTable], given["field"])].dtype)
                ELSE "type" \notin DOMAIN out

\* The documented example: x "month" and y "revenue" with nothing else given;
\* the table was inferred and the types came out temporal and quantitative.
C21_Witness ==
    /\ pc = "normalized" /\ ~ret.raised
    /\ DOMAIN arg0 = {"encoding"}
    /\ arg0["encoding"].kind = "dict"
    /\ DOMAIN GivenEncoding = {"x", "y"}
    /\ GivenAxis("x") = [field |-> T_month]
    /\ GivenAxis("y") = [field |-> T_revenue]
    /\ ret.out["data_source"] = "sales"
    /\ ret.out["encoding"].d["x"].d["type"] = "temporal"
    /\ ret.out["encoding"].d["y"].d["type"] = "quantitative"

\* C22: when the spec comes without a chart_type, _normalize_spec sets it to
\* line if the x type of the returned spec (given or inferred) is temporal
\* and to bar otherwise, also when x has no type; a chart_type that was given
\* is returned as it was.
C22_ChartTypeInferred ==
    pc = "normalized" /\ ~ret.raised =>
        /\ "chart_type" \in DOMAIN ret.out
        /\ "chart_type" \in DOMAIN arg0 => ret.out["chart_type"] = arg0["chart_type"]
        /\ "chart_type" \notin DOMAIN arg0 =>
              ret.out["chart_type"] =
                  IF Get(ret.out["encoding"].d["x"].d, "type", NoneS) = "temporal"
                  THEN "line" ELSE "bar"

\* No chart_type was given and the x field is not a column of the table, so x
\* has no type: the chart type came out bar.
C22_Witness ==
    /\ pc = "normalized" /\ ~ret.raised
    /\ "chart_type" \notin DOMAIN arg0
    /\ Get(arg0, "data_source", NoneS) = "sales"
    /\ GivenAxis("x") = [field |-> T_zz]
    /\ "type" \notin DOMAIN ret.out["encoding"].d["x"].d
    /\ ret.out["chart_type"] = "bar"

----------------------------------------------------------------------------
(* Properties of catalog loading (specification SpecLoad) *)

UniqueNames(columns) ==
    \A i, j \in 1..Len(columns) : columns[i].name = columns[j].name => i = j

\* C23: loading a definition in which a table declares the same column name
\* twice fails and produces no catalog; every catalog that loading returns
\* has unique column names within each table.
C23_DuplicateColumnsRejected ==
    pc = "loaded" =>
        /\ (\E t \in 1..Len(arg0) : ~UniqueNames(arg0[t].columns)) => ret.raised
        /\ ~ret.raised => \A t \in 1..Len(catalog) : UniqueNames(catalog[t].columns)

NumericDtype(dtype) == dtype \in {"float64", "int64", "float32", "int32"}
MoneyName(name) ==
    \E term \in {T_sales, T_revenue, T_price} : Contains(term, StrLower(name))
CountName(name) == Contains(T_count, StrLower(name))

\* C24: at load time a column declared without a unit gets USD when its dtype
\* is numeric and its name contains a money keyword (sales, revenue, price),
\* gets no unit when its name contains count, and gets no unit when its dtype
\* is not numeric; a declared unit is kept.
C24_UnitInferredAtLoad ==
    pc = "loaded" =>
        \A t \in 1..Len(arg0) : \A i \in 1..Len(arg0[t].columns) :
            LET raw == arg0[t].columns[i]
                col == catalog[t].columns[i]
            IN  /\ raw.unit # NoneT => col.unit = raw.unit
                /\ raw.unit = NoneT =>
                      /\ NumericDtype(raw.dtype) /\ MoneyName(raw.name) => col.unit = T_USD
                      /\ CountName(raw.name) => col.unit = NoneT
                      /\ ~NumericDtype(raw.dtype) => col.unit = NoneT

----------------------------------------------------------------------------
(* Further properties of apply_auto_fixes (specification SpecFix) *)

\* C29: applying the validator's auto-fixes never changes the verdict:
\* whenever validate_spec(s) returns, validating apply_auto_fixes(s,
\* auto_fixes) returns the same ok and the same sequence of issue codes.
C29_FixesKeepVerdict ==
    pc = "fixed_validated" =>
        /\ ~ret.raised
        /\ ret.ok = Validate(catalog, arg0, data_json).ok
        /\ Codes(ret.issues) = Codes(Validate(catalog, arg0, data_json).issues)

\* An invalid spec (a dtype mismatch on y and a bar chart over a temporal x)
\* got a unit fix staged and applied, and stayed invalid with the same codes.
C29_Witness ==
    /\ pc = "fixed_validated" /\ ~ret.raised
    /\ "meta" \notin DOMAIN arg0
    /\ "meta" \in DOMAIN prev.out
    /\ ~ret.ok
    /\ Codes(ret.issues) = <<"DTYPE_MISMATCH", "INTENT_RULE">>

----------------------------------------------------------------------------
(* Properties of two interleaved runs (specification SpecPair) *)

----------------------------------------------------------------------------
(* Further properties of one workflow run (specification Spec) *)

LifecycleEdges ==
    {<<"ProposerAgent", "ValidatorAgent">>, <<"ValidatorAgent", "RendererAgent">>,
     <<"ValidatorAgent", "RepairAgent">>, <<"RepairAgent", "ValidatorAgent">>}

\* Control moves to another agent along a lifecycle edge only.
HandoffsFollowEdges ==
    [][agent' # agent /\ agent' # "done" => <<agent, agent'>> \in LifecycleEdges]_vars

\* A render or repair tool call is made only after the current chart_spec
\* went through validation.
RenderAndRepairAfterValidation ==
    [][hist'.renders > hist.renders \/ hist'.repairs > hist.repairs =>
          hist.validated # "no"]_vars

\* Once the renderer has control, no propose, validate, apply-fixes or repair
\* step occurs and control goes nowhere but to the end of the run.
RendererIsTerminal ==
    [][agent = "RendererAgent" =>
          /\ agent' \in {"RendererAgent", "done"}
          /\ state'.chart_spec = state.chart_spec
          /\ state'.validation_result = state.validation_result
          /\ hist'.repairs = hist.repairs]_vars

\* C26: control passes between the stages only along the edges Proposer ->
\* Validator, Validator -> Renderer, Validator -> Repair and Repair ->
\* Validator; every render and every repair is preceded by a validation of
\* the current spec (so a repaired spec is validated again before it is
\* rendered); the renderer is terminal.
C26_StagesFollowEdges ==
    HandoffsFollowEdges /\ RenderAndRepairAfterValidation /\ RendererIsTerminal

\* The spec the renderer is handed once validation passed: the stored
\* chart_spec with the auto-fixes of that validation applied.
SpecForRenderer ==
    ApplyFixesTool(state.chart_spec, state.validation_result.auto_fixes).v

\* C27: whenever validation reports ok for the run's chart_spec, the spec
\* then handed to the renderer (the stored chart_spec after apply_auto_fixes)
\* has a chart_type key with one of line, bar, area, pie and has x and y
\* encodings with a field, so render_chart does not fail on it for a missing
\* or unsupported chart_type.
C27_ValidatedSpecRenderable ==
    hist.validated = "ok" =>
        /\ "chart_type" \in DOMAIN SpecForRenderer
        /\ SpecForRenderer["chart_type"] \in {"line", "bar", "area", "pie"}
        /\ "encoding" \in DOMAIN SpecForRenderer
        /\ SpecForRenderer["encoding"].kind = "dict"
        /\ Get(RenderAxis(SpecForRenderer["encoding"].d, "x"), "field", NoneT) # NoneT
        /\ Get(RenderAxis(SpecForRenderer["encoding"].d, "y"), "field", NoneT) # NoneT
        /\ ~RenderChartRaises(SpecForRenderer)

----------------------------------------------------------------------------
(* Further property of validation (specification SpecFn) *)

\* validate_spec was called on a spec that leaves both axis types and the
\* chart type to be inferred, and whose data source and fields resolve.
InferringResolved ==
    /\ pc = "validated"
    /\ "chart_type" \notin DOMAIN arg0
    /\ "field" \in DOMAIN GivenAxis("x") /\ "type" \notin DOMAIN GivenAxis("x")
    /\ "field" \in DOMAIN GivenAxis("y") /\ "type" \notin DOMAIN GivenAxis("y")
    /\ SourceTable # 0
    /\ ~FieldFails(NormalizedX) /\ ~FieldFails(NormalizedY)

\* C28: a spec that leaves both axis types and chart_type to be inferred is
\* never rejected by the semantic rules: when its data source and both fields
\* resolve, validate_spec returns ok = true, with no DTYPE_MISMATCH and no
\* INTENT_RULE issue.
C28_InferredSpecAccepted ==
    InferringResolved =>
        /\ ~ret.raised
        /\ ret.ok
        /\ WithCode(ret.issues, "DTYPE_MISMATCH") = <<>>
        /\ WithCode(ret.issues, "INTENT_RULE") = <<>>
====
